---- MODULE Spec2Model ----
(***************************************************************************)
(* Model of interval.py: Interval, the proper-interval types (Year,        *)
(* Quarter, Month, Week, Day, Hour, Minute, Second, MilliSecond,           *)
(* MicroSecond) and _IterableInterval.divide.                              *)
(*                                                                         *)
(* The library is a set of pure operations on immutable values.  The       *)
(* state machine is a caller: each action is one call, and the state       *)
(* records the operation called, its arguments and what it returned or     *)
(* raised.  gens holds the generators that calls of iter have created and  *)
(* the caller is still consuming, each with its local variables and the    *)
(* values it has yielded so far.                                           *)
(*                                                                         *)
(* datetime and timedelta are modelled as Python stores them: a datetime   *)
(* is its calendar fields plus whether it carries a tzinfo, a timedelta    *)
(* is normalised (days, seconds, microseconds).  The only tzinfo           *)
(* modelled is UTC, so an aware datetime is its fields plus aware = TRUE.  *)
(* The year range limits of datetime (1..9999) are outside the inputs.     *)
(* True division of timedeltas is exact (a fraction), float rounding is    *)
(* not modelled.                                                           *)
(***************************************************************************)
EXTENDS Integers, Sequences, FiniteSets, TLC

VARIABLES op, args, result, gens

vars == <<op, args, result, gens>>

(***************************************************************************)
(* Bounds of the input sets.                                               *)
(***************************************************************************)
\* instants range over MaxK units on either side of the base instant
MaxK == 2

\* iter is called with count up to MaxCount + 1 and sentinels up to MaxCount
\* steps away; the caller takes at most MaxCount + 1 values from a generator
MaxCount == 2

(***************************************************************************)
(* Python values.                                                          *)
(***************************************************************************)
NoneVal == [cls |-> "None"]

IsNone(v) == v.cls = "None"

DateTime(y, mo, d, h, mi, s, us, aw) ==
    [cls |-> "datetime", year |-> y, month |-> mo, day |-> d, hour |-> h,
     minute |-> mi, second |-> s, microsecond |-> us, aware |-> aw]

\* timedelta normalises to 0 <= seconds < 86400, 0 <= microseconds < 10^6
TimeDelta(d, s, us) ==
    LET s1 == s + (us \div 1000000)
    IN  [cls |-> "timedelta", days |-> d + (s1 \div 86400),
         seconds |-> s1 % 86400, microseconds |-> us % 1000000]

\* bool(v) as the `if beg:` / `if delta:` / `if end` tests take it:
\* None and timedelta(0) are false, every datetime is true
Truthy(v) ==
    CASE v.cls = "None" -> FALSE
      [] v.cls = "timedelta" ->
            ~(v.days = 0 /\ v.seconds = 0 /\ v.microseconds = 0)
      [] OTHER -> TRUE

Ok(v) == [ok |-> TRUE, err |-> "", val |-> v]

Err(e) == [ok |-> FALSE, err |-> e, val |-> NoneVal]

(***************************************************************************)
(* The calendar (datetime's proleptic Gregorian ordinal arithmetic).       *)
(***************************************************************************)
IsLeap(y) == y % 4 = 0 /\ (y % 100 # 0 \/ y % 400 = 0)

DaysInMonth(y, m) ==
    IF m = 2 THEN (IF IsLeap(y) THEN 29 ELSE 28)
    ELSE IF m \in {4, 6, 9, 11} THEN 30 ELSE 31

RECURSIVE DaysBeforeMonth(_, _)
DaysBeforeMonth(y, m) ==
    IF m = 1 THEN 0 ELSE DaysBeforeMonth(y, m - 1) + DaysInMonth(y, m - 1)

DaysBeforeYear(y) ==
    LET p == y - 1 IN p * 365 + (p \div 4) - (p \div 100) + (p \div 400)

ToOrdinal(y, m, d) == DaysBeforeYear(y) + DaysBeforeMonth(y, m) + d

\* the year containing ordinal n
RECURSIVE YearOfFrom(_, _)
YearOfFrom(n, y) ==
    IF n <= DaysBeforeYear(y) THEN YearOfFrom(n, y - 1)
    ELSE IF n > DaysBeforeYear(y + 1) THEN YearOfFrom(n, y + 1)
    ELSE y

RECURSIVE MonthOfFrom(_, _, _)
MonthOfFrom(y, r, m) ==
    IF r > DaysBeforeMonth(y, m) + DaysInMonth(y, m)
    THEN MonthOfFrom(y, r, m + 1) ELSE m

\* datetime.fromordinal plus a time of day
FromOrdinal(n, secs, us, aw) ==
    LET y == YearOfFrom(n, (n \div 366) + 1)
        r == n - DaysBeforeYear(y)
        m == MonthOfFrom(y, r, 1)
    IN  DateTime(y, m, r - DaysBeforeMonth(y, m), secs \div 3600,
                 (secs % 3600) \div 60, secs % 60, us, aw)

OrdinalOf(dt) == ToOrdinal(dt.year, dt.month, dt.day)

SecondsOf(dt) == dt.hour * 3600 + dt.minute * 60 + dt.second

\* datetime.weekday(): Monday is 0
Weekday(dt) == (OrdinalOf(dt) + 6) % 7

\* datetime + timedelta
DtAdd(dt, td) ==
    LET us == dt.microsecond + td.microseconds
        s  == SecondsOf(dt) + td.seconds + (us \div 1000000)
    IN  FromOrdinal(OrdinalOf(dt) + td.days + (s \div 86400),
                    s % 86400, us % 1000000, dt.aware)

TdNeg(td) == TimeDelta(-td.days, -td.seconds, -td.microseconds)

\* datetime - timedelta
DtSubTd(dt, td) == DtAdd(dt, TdNeg(td))

\* a naive and an aware datetime cannot be ordered or subtracted: TypeError
Comparable(a, b) == a.aware = b.aware

\* datetime - datetime, for comparable operands
DtSub(a, b) ==
    TimeDelta(OrdinalOf(a) - OrdinalOf(b), SecondsOf(a) - SecondsOf(b),
              a.microsecond - b.microsecond)

\* a == b: a naive and an aware datetime are unequal, without an error
DtEq(a, b) == a = b

DtKey(dt) == <<OrdinalOf(dt), SecondsOf(dt), dt.microsecond>>

KeyLt(k, l) ==
    \/ k[1] < l[1]
    \/ k[1] = l[1] /\ k[2] < l[2]
    \/ k[1] = l[1] /\ k[2] = l[2] /\ k[3] < l[3]

\* a < b and a <= b, for comparable operands
DtLt(a, b) == KeyLt(DtKey(a), DtKey(b))

DtLe(a, b) == DtLt(a, b) \/ DtKey(a) = DtKey(b)

(***************************************************************************)
(* Interval values.  A plain Interval stores _beg and _delta; Year,        *)
(* Quarter and Month store their calendar fields and a tzinfo; the fixed   *)
(* length types store _beg and take delta from the class.                  *)
(***************************************************************************)
FixedClasses ==
    {"Week", "Day", "Hour", "Minute", "Second", "MilliSecond", "MicroSecond"}

ProperClasses == {"Year", "Quarter", "Month"} \cup FixedClasses

\* the class attribute delta of the fixed-length types
ClassDelta(c) ==
    CASE c = "Week" -> TimeDelta(7, 0, 0)
      [] c = "Day" -> TimeDelta(1, 0, 0)
      [] c = "Hour" -> TimeDelta(0, 3600, 0)
      [] c = "Minute" -> TimeDelta(0, 60, 0)
      [] c = "Second" -> TimeDelta(0, 1, 0)
      [] c = "MilliSecond" -> TimeDelta(0, 0, 1000)
      [] c = "MicroSecond" -> TimeDelta(0, 0, 1)

PlainInterval(b, d) == [cls |-> "Interval", beg |-> b, delta |-> d]

YearVal(y, aw) == [cls |-> "Year", year |-> y, aware |-> aw]

QuarterVal(y, q, aw) ==
    [cls |-> "Quarter", year |-> y, quarter |-> q, aware |-> aw]

MonthVal(y, m, aw) == [cls |-> "Month", year |-> y, month |-> m, aware |-> aw]

FixedVal(c, b) == [cls |-> c, beg |-> b]

Midnight(y, m, d, aw) == DateTime(y, m, d, 0, 0, 0, 0, aw)

Beg(x) ==
    CASE x.cls = "Year" -> Midnight(x.year, 1, 1, x.aware)
      [] x.cls = "Quarter" ->
            Midnight(x.year, (x.quarter - 1) * 3 + 1, 1, x.aware)
      [] x.cls = "Month" -> Midnight(x.year, x.month, 1, x.aware)
      [] OTHER -> x.beg

Delta(x) ==
    CASE x.cls = "Interval" -> x.delta
      [] x.cls = "Year" ->
            DtSub(Midnight(x.year + 1, 1, 1, x.aware),
                  Midnight(x.year, 1, 1, x.aware))
      [] x.cls = "Quarter" ->
            DtSub(IF x.quarter = 4 THEN Midnight(x.year + 1, 1, 1, x.aware)
                  ELSE Midnight(x.year, x.quarter * 3 + 1, 1, x.aware),
                  Midnight(x.year, (x.quarter - 1) * 3 + 1, 1, x.aware))
      [] x.cls = "Month" -> TimeDelta(DaysInMonth(x.year, x.month), 0, 0)
      [] OTHER -> ClassDelta(x.cls)

End(x) ==
    CASE x.cls = "Year" -> Midnight(x.year + 1, 1, 1, x.aware)
      [] x.cls = "Quarter" ->
            IF x.quarter = 4 THEN Midnight(x.year + 1, 1, 1, x.aware)
            ELSE Midnight(x.year, x.quarter * 3 + 1, 1, x.aware)
      [] x.cls = "Month" ->
            IF x.month = 12 THEN Midnight(x.year + 1, 1, 1, x.aware)
            ELSE Midnight(x.year, x.month + 1, 1, x.aware)
      [] OTHER -> DtAdd(x.beg, Delta(x))

\* Interval.__eq__ between two intervals
IntervalEq(x, y) == DtEq(Beg(x), Beg(y)) /\ DtEq(End(x), End(y))

(***************************************************************************)
(* Interval.__init__                                                       *)
(***************************************************************************)
IntervalNew(beg, end, delta) ==
    IF Truthy(beg)
    THEN IF Truthy(delta)
         THEN IF Truthy(end) /\ ~DtEq(DtAdd(beg, delta), end)
              THEN Err("ValueError")
              ELSE Ok(PlainInterval(beg, delta))
         ELSE IF ~Truthy(end)
              THEN Err("ValueError")
              ELSE IF ~Comparable(end, beg)
                   THEN Err("TypeError")
                   ELSE Ok(PlainInterval(beg, DtSub(end, beg)))
    ELSE IF ~(Truthy(end) /\ Truthy(delta))
         THEN Err("ValueError")
         ELSE Ok(PlainInterval(DtSubTd(end, delta), delta))

(***************************************************************************)
(* Interval.__contains__: beg <= d < end; ordering a naive against an      *)
(* aware datetime raises TypeError.                                        *)
(***************************************************************************)
\* __contains__ with the end included: beg <= d <= end
ContainsClosed(x, d) ==
    IF ~Comparable(Beg(x), d) THEN Err("TypeError")
    ELSE Ok(DtLe(Beg(x), d) /\ DtLe(d, End(x)))

Contains(x, d) ==
    IF ~Comparable(Beg(x), d) THEN Err("TypeError")
    ELSE Ok(DtLe(Beg(x), d) /\ DtLt(d, End(x)))

(***************************************************************************)
(* Constructors of the proper-interval types.                              *)
(***************************************************************************)
YearNew(y, aw) == Ok(YearVal(y, aw))

QuarterNew(y, q, aw) ==
    IF ~(1 <= q /\ q <= 4) THEN Err("ValueError") ELSE Ok(QuarterVal(y, q, aw))

MonthNew(y, m, aw) ==
    IF ~(1 <= m /\ m <= 12) THEN Err("ValueError") ELSE Ok(MonthVal(y, m, aw))

FixedNew(c, b) == Ok(FixedVal(c, b))

(***************************************************************************)
(* containing, per class.                                                  *)
(***************************************************************************)
\* calendar.firstweekday() with the default calendar: Monday
FirstWeekday == 0

\* round(n, -3) on an int: to the nearest thousand, ties to the even one
RoundThousands(n) ==
    LET q == n \div 1000
        r == n % 1000
    IN  IF r < 500 THEN q * 1000
        ELSE IF r > 500 THEN (q + 1) * 1000
        ELSE IF q % 2 = 0 THEN q * 1000 ELSE (q + 1) * 1000

\* dt.replace(microsecond=us): ValueError outside 0..999999
ReplaceMicrosecond(dt, us) ==
    IF us < 0 \/ us > 999999 THEN Err("ValueError")
    ELSE Ok([dt EXCEPT !.microsecond = us])

QuarterContaining(dt) == QuarterNew(dt.year, (dt.month \div 3) + 1, dt.aware)

WeekContaining(dt) ==
    LET starts_on  == FirstWeekday
        days_prior == (Weekday(dt) + 7 - starts_on) % 7
        day_start  == [dt EXCEPT !.hour = 0, !.minute = 0, !.second = 0,
                                 !.microsecond = 0]
        week_start == DtSubTd(day_start, TimeDelta(days_prior, 0, 0))
    IN  FixedNew("Week", week_start)

\* datetime(dt.year, dt.month, dt.day) carries no tzinfo
DayContaining(dt) == FixedNew("Day", Midnight(dt.year, dt.month, dt.day, FALSE))

MilliSecondContaining(dt) ==
    LET r == ReplaceMicrosecond(dt, RoundThousands(dt.microsecond))
    IN  IF r.ok THEN FixedNew("MilliSecond", r.val) ELSE r

Containing(c, dt) ==
    CASE c = "Year" -> YearNew(dt.year, dt.aware)
      [] c = "Quarter" -> QuarterContaining(dt)
      [] c = "Month" -> MonthNew(dt.year, dt.month, dt.aware)
      [] c = "Week" -> WeekContaining(dt)
      [] c = "Day" -> DayContaining(dt)
      [] c = "Hour" ->
            FixedNew(c, [dt EXCEPT !.minute = 0, !.second = 0,
                                   !.microsecond = 0])
      [] c = "Minute" ->
            FixedNew(c, [dt EXCEPT !.second = 0, !.microsecond = 0])
      [] c = "Second" -> FixedNew(c, [dt EXCEPT !.microsecond = 0])
      [] c = "MilliSecond" -> MilliSecondContaining(dt)
      [] c = "MicroSecond" -> FixedNew(c, dt)

(***************************************************************************)
(* beginning, ending, next, prev.  The fixed-length types resolve          *)
(* beginning and ending to FixedInterval's, Year, Quarter and Month to     *)
(* ProperInterval's and _IterableInterval's.                               *)
(***************************************************************************)
ProperBeginning(c, dt) ==
    LET interval == Containing(c, dt)
    IN  IF ~interval.ok THEN interval
        ELSE IF ~DtEq(Beg(interval.val), dt) THEN Err("ValueError")
        ELSE interval

FixedBeginning(c, d) == FixedNew(c, d)

Beginning(c, dt) ==
    IF c \in FixedClasses THEN FixedBeginning(c, dt) ELSE ProperBeginning(c, dt)

\* _IterableInterval.next
NextInterval(x) == Beginning(x.cls, End(x))

FixedEnding(c, d) == FixedNew(c, DtSubTd(d, ClassDelta(c)))

PrevInterval(x) ==
    CASE x.cls = "Year" -> YearNew(x.year - 1, x.aware)
      [] x.cls = "Quarter" ->
            IF x.quarter = 1 THEN QuarterNew(x.year - 1, 4, x.aware)
            ELSE QuarterNew(x.year, x.quarter - 1, x.aware)
      [] x.cls = "Month" ->
            IF x.month = 1 THEN MonthNew(x.year - 1, 12, x.aware)
            ELSE MonthNew(x.year, x.month - 1, x.aware)
      [] OTHER -> FixedEnding(x.cls, x.beg)

(***************************************************************************)
(* _IterableInterval.divide                                                *)
(***************************************************************************)
ExtrasActions == {"raise", "ignore", "partial"}

\* out.append(Interval(beg=b, end=e)), or the error the constructor raises
AppendInterval(out, b, e) ==
    LET i == IntervalNew(b, e, NoneVal)
    IN  IF i.ok THEN Ok(Append(out, i.val)) ELSE i

\* after the while loop: the handling of the trailing edge
DivideTail(interval, extras_action, out, sub_interval) ==
    IF ~DtEq(Beg(sub_interval), End(interval))
    THEN IF extras_action = "raise" THEN Err("ValueError")
         ELSE IF extras_action = "partial"
              THEN AppendInterval(out, Beg(sub_interval), End(interval))
              ELSE Ok(out)
    ELSE Ok(out)

\* while sub_interval.end <= interval.end: append, step to next()
RECURSIVE DivideLoop(_, _, _, _)
DivideLoop(interval, extras_action, out, sub_interval) ==
    IF ~Comparable(End(sub_interval), End(interval)) THEN Err("TypeError")
    ELSE IF DtLe(End(sub_interval), End(interval))
         THEN LET n == NextInterval(sub_interval)
              IN  IF ~n.ok THEN n
                  ELSE DivideLoop(interval, extras_action,
                                  Append(out, sub_interval), n.val)
         ELSE DivideTail(interval, extras_action, out, sub_interval)

\* from the first next() on
DivideRest(interval, extras_action, out, sub_interval) ==
    LET n == NextInterval(sub_interval)
    IN  IF ~n.ok THEN n
        ELSE DivideLoop(interval, extras_action, out, n.val)

Divide(c, interval, extras_action) ==
    IF extras_action \notin ExtrasActions THEN Err("ValueError")
    ELSE LET first == Containing(c, Beg(interval))
         IN  IF ~first.ok THEN first
             ELSE IF ~DtEq(Beg(interval), Beg(first.val))
                  THEN IF extras_action = "raise" THEN Err("ValueError")
                       ELSE IF extras_action = "partial"
                            THEN LET o == AppendInterval(<<>>, Beg(interval),
                                                         End(first.val))
                                 IN  IF ~o.ok THEN o
                                     ELSE DivideRest(interval, extras_action,
                                                     o.val, first.val)
                            ELSE DivideRest(interval, extras_action,
                                            <<first.val>>, first.val)
                  ELSE DivideRest(interval, extras_action,
                                  <<first.val>>, first.val)

(***************************************************************************)
(* Interval.__add__                                                        *)
(***************************************************************************)
\* __add__ with only the self-before-other case handled
AddForwardOnly(self, other) ==
    IF DtEq(End(self), Beg(other))
    THEN IntervalNew(Beg(self), End(other), NoneVal)
    ELSE Err("ValueError")

Add(self, other) ==
    IF DtEq(End(other), Beg(self))
    THEN IntervalNew(Beg(other), End(self), NoneVal)
    ELSE IF DtEq(End(self), Beg(other))
         THEN IntervalNew(Beg(self), End(other), NoneVal)
         ELSE Err("ValueError")

(***************************************************************************)
(* Interval.pace.  A float is modelled as the exact fraction num / den.    *)
(***************************************************************************)
Frac(n, d) == [num |-> n, den |-> d]

\* timedelta / timedelta divides the two lengths in microseconds
TotalMicros(td) ==
    (td.days * 86400 + td.seconds) * 1000000 + td.microseconds

TdDiv(a, b) ==
    IF TotalMicros(b) = 0 THEN Err("ZeroDivisionError")
    ELSE Ok(Frac(TotalMicros(a), TotalMicros(b)))

\* pace without the clamp to 1.0 after the end
PaceUnclamped(x, dt) ==
    IF ~Comparable(dt, Beg(x)) THEN Err("TypeError")
    ELSE IF DtLt(dt, Beg(x)) THEN Ok(Frac(0, 1))
    ELSE TdDiv(DtSub(dt, Beg(x)), Delta(x))

\* pace(dt) with the instant to use already chosen (dt, or now if dt is None)
Pace(x, dt) ==
    IF ~Comparable(dt, Beg(x)) THEN Err("TypeError")
    ELSE IF DtLt(dt, Beg(x)) THEN Ok(Frac(0, 1))
    ELSE IF DtLt(End(x), dt) THEN Ok(Frac(1, 1))
    ELSE TdDiv(DtSub(dt, Beg(x)), Delta(x))

(***************************************************************************)
(* _IterableInterval.iter, a generator.  Calling it runs no code; each     *)
(* pull runs it from where it is suspended to the next yield or to the     *)
(* end.                                                                    *)
(***************************************************************************)
\* an int argument (count), as opposed to None
IntVal(n) == [cls |-> "int", val |-> n]

\* next_interval == end: Interval.__eq__ is False for a non-Interval (None)
SentinelEq(x, end) == IF IsNone(end) THEN FALSE ELSE IntervalEq(x, end)

\* next_interval.prev() if reverse else next_interval.next()
IterStep(x, reverse) == IF reverse THEN PrevInterval(x) ELSE NextInterval(x)

\* the generator object iter() returns: not started
NewGen ==
    [pc |-> "created", yielded_count |-> 0, next_interval |-> NoneVal,
     out |-> <<>>, err |-> ""]

\* the loop head with `yielded_count > count` for `>=`
IterCheckLate(g, yc, ni, count, end) ==
    IF ~IsNone(count) /\ yc > count.val
    THEN [g EXCEPT !.pc = "done", !.yielded_count = yc, !.next_interval = ni]
    ELSE IF SentinelEq(ni, end)
         THEN [g EXCEPT !.pc = "done", !.yielded_count = yc,
                        !.next_interval = ni]
         ELSE [g EXCEPT !.pc = "suspended", !.yielded_count = yc,
                        !.next_interval = ni, !.out = Append(g.out, ni)]

\* the loop head: the two breaks, else yield next_interval
IterCheck(g, yc, ni, count, end) ==
    IF ~IsNone(count) /\ yc >= count.val
    THEN [g EXCEPT !.pc = "done", !.yielded_count = yc, !.next_interval = ni]
    ELSE IF SentinelEq(ni, end)
         THEN [g EXCEPT !.pc = "done", !.yielded_count = yc,
                        !.next_interval = ni]
         ELSE [g EXCEPT !.pc = "suspended", !.yielded_count = yc,
                        !.next_interval = ni, !.out = Append(g.out, ni)]

\* one pull: from the start, or from after the yield (count it, step)
IterResume(g, self, count, end, reverse) ==
    IF g.pc = "created" THEN IterCheck(g, 0, self, count, end)
    ELSE LET n == IterStep(g.next_interval, reverse)
         IN  IF ~n.ok THEN [g EXCEPT !.pc = "done", !.err = n.err]
             ELSE IterCheck(g, g.yielded_count + 1, n.val, count, end)

\* what the pull gives the caller
PullResult(g) ==
    IF g.pc = "done"
    THEN Err(IF g.err = "" THEN "StopIteration" ELSE g.err)
    ELSE Ok(g.next_interval)

(***************************************************************************)
(* Inputs.                                                                 *)
(***************************************************************************)
\* Monday 2018-01-01 00:00: the start of a unit of every type
Base == Midnight(2018, 1, 1, FALSE)

WithAware(dt, aw) == [dt EXCEPT !.aware = aw]

TdScale(td, k) == TimeDelta(td.days * k, td.seconds * k, td.microseconds * k)

HalfDay == TimeDelta(0, 43200, 0)

InitInstants ==
    {WithAware(DtAdd(Base, TdScale(HalfDay, k)), aw) :
        k \in (-MaxK)..MaxK, aw \in BOOLEAN}

InitDeltas == {TdScale(HalfDay, k) : k \in (-MaxK)..MaxK}

\* instants around Base for a fixed-length type: multiples of a fraction of
\* the unit, so that unit starts and instants inside a unit both occur
Step(c) ==
    CASE c = "Week" -> TimeDelta(3, 43200, 0)
      [] c = "Day" -> TimeDelta(0, 43200, 0)
      [] c = "Hour" -> TimeDelta(0, 1800, 0)
      [] c = "Minute" -> TimeDelta(0, 30, 0)
      [] c = "Second" -> TimeDelta(0, 0, 500000)
      [] c = "MilliSecond" -> TimeDelta(0, 0, 250)
      [] c = "MicroSecond" -> TimeDelta(0, 0, 1)

StepsPerUnit(c) ==
    CASE c = "MilliSecond" -> 4
      [] c = "MicroSecond" -> 1
      [] OTHER -> 2

FixedPts(c) ==
    {DtAdd(Base, TdScale(Step(c), k)) :
        k \in (-(StepsPerUnit(c) * MaxK))..(StepsPerUnit(c) * MaxK)}

\* instants around Base for Year, Quarter and Month: the 1st and the 16th
\* of months, every MonthStep months
MonthStep(c) == IF c = "Year" THEN 6 ELSE 1

MonthsPerUnit(c) ==
    CASE c = "Year" -> 12
      [] c = "Quarter" -> 3
      [] c = "Month" -> 1

MonthIndex(dt) == dt.year * 12 + (dt.month - 1)

VarPts(c) ==
    LET n == (MonthsPerUnit(c) \div MonthStep(c)) * MaxK
    IN  {Midnight((MonthIndex(Base) + j * MonthStep(c)) \div 12,
                  ((MonthIndex(Base) + j * MonthStep(c)) % 12) + 1, d, FALSE) :
            j \in (-n)..n, d \in {1, 16}}

Pts(c) == IF c \in FixedClasses THEN FixedPts(c) ELSE VarPts(c)

\* instants away from Base: a leap day, the last microsecond of a leap
\* year, March 1st in a leap and in a common year, an instant aligned to
\* nothing
ExtraInstants ==
    {DateTime(2016, 2, 29, 13, 45, 30, 123456, FALSE),
     DateTime(2016, 12, 31, 23, 59, 59, 999999, FALSE),
     Midnight(2016, 3, 1, FALSE),
     Midnight(2017, 3, 1, FALSE),
     DateTime(2018, 1, 3, 12, 30, 30, 1500, FALSE)}

Instants(c) ==
    {WithAware(t, aw) : t \in Pts(c) \cup ExtraInstants, aw \in BOOLEAN}

\* the values containing returns on the instants
Units(c) ==
    {Containing(c, t).val : t \in {u \in Instants(c) : Containing(c, u).ok}}

\* the intervals Interval(beg=b, end=e) over a set of instants, those with
\* end before beg and the empty ones included
IntervalsOver(pts) ==
    {IntervalNew(WithAware(b, aw), WithAware(e, aw), NoneVal).val :
        b \in pts, e \in pts, aw \in BOOLEAN}

\* the sources divided into units of class c
Sources(c) == IntervalsOver(Pts(c))

Policies == ExtrasActions \cup {"other"}

\* operands of + : plain intervals and the units of one class
Operands == IntervalsOver({t \in InitInstants : ~t.aware}) \cup Units("Day")

\* instants a few hundred microseconds apart, across the turn of the year
PaceInstants ==
    {WithAware(DtAdd(Base, TdScale(Step("MilliSecond"), k)), aw) :
        k \in (-MaxK)..MaxK, aw \in BOOLEAN}

PaceIntervals == IntervalsOver({t \in PaceInstants : ~t.aware})

\* the intervals iterations start from: the unit of each class at Base, and
\* the year, quarter and month at the 1st of March of a leap year
IterStarts ==
    {Containing(c, Base).val : c \in ProperClasses}
        \cup {Containing(c, Midnight(2016, 3, 1, FALSE)).val :
                c \in {"Year", "Quarter", "Month"}}

\* x stepped n times
RECURSIVE StepsFrom(_, _, _)
StepsFrom(x, n, reverse) ==
    IF n = 0 THEN x ELSE StepsFrom(IterStep(x, reverse).val, n - 1, reverse)

\* end sentinels for an iteration from x: none, x itself and the values up
\* to MaxCount steps ahead, the value one step behind, and a plain Interval
\* equal to the value one step ahead
Sentinels(x, reverse) ==
    {NoneVal}
        \cup {StepsFrom(x, n, reverse) : n \in 0..MaxCount}
        \cup {IterStep(x, ~reverse).val}
        \cup {PlainInterval(Beg(IterStep(x, reverse).val),
                            Delta(IterStep(x, reverse).val))}

Counts == {NoneVal} \cup {IntVal(n) : n \in 0..(MaxCount + 1)}

(***************************************************************************)
(* The caller.                                                             *)
(***************************************************************************)
Init ==
    /\ op = "start"
    /\ args = <<>>
    /\ result = Ok(NoneVal)
    /\ gens = <<>>

\* Interval(beg, end, delta), any of them possibly omitted
CallInterval ==
    /\ op = "start"
    /\ UNCHANGED gens
    /\ \E beg \in InitInstants \cup {NoneVal},
          end \in InitInstants \cup {NoneVal},
          delta \in InitDeltas \cup {NoneVal} :
            /\ op' = "Interval"
            /\ args' = <<beg, end, delta>>
            /\ result' = IntervalNew(beg, end, delta)

\* cls.containing(t)
CallContaining ==
    /\ op = "start"
    /\ UNCHANGED gens
    /\ \E c \in ProperClasses : \E t \in Instants(c) :
            /\ op' = "containing"
            /\ args' = <<c, t>>
            /\ result' = Containing(c, t)

\* cls.beginning(t)
CallBeginning ==
    /\ op = "start"
    /\ UNCHANGED gens
    /\ \E c \in ProperClasses : \E t \in Instants(c) :
            /\ op' = "beginning"
            /\ args' = <<c, t>>
            /\ result' = Beginning(c, t)

\* x.next()
CallNext ==
    /\ op = "start"
    /\ UNCHANGED gens
    /\ \E c \in ProperClasses : \E x \in Units(c) :
            /\ op' = "next"
            /\ args' = <<x>>
            /\ result' = NextInterval(x)

\* x.prev()
CallPrev ==
    /\ op = "start"
    /\ UNCHANGED gens
    /\ \E c \in ProperClasses : \E x \in Units(c) :
            /\ op' = "prev"
            /\ args' = <<x>>
            /\ result' = PrevInterval(x)

\* cls.divide(interval, extras_action)
CallDivide ==
    /\ op = "start"
    /\ UNCHANGED gens
    /\ \E c \in ProperClasses : \E interval \in Sources(c) :
        \E extras_action \in Policies :
            /\ op' = "divide"
            /\ args' = <<c, interval, extras_action>>
            /\ result' = Divide(c, interval, extras_action)

\* a + b
CallAdd ==
    /\ op = "start"
    /\ UNCHANGED gens
    /\ \E a \in Operands, b \in Operands :
            /\ op' = "add"
            /\ args' = <<a, b>>
            /\ result' = Add(a, b)

\* x.pace(dt); with dt None the instant is datetime.now(x.tzinfo), any
\* instant of x's timezone-awareness
CallPace ==
    /\ op = "start"
    /\ UNCHANGED gens
    /\ \E x \in PaceIntervals, dt \in PaceInstants \cup {NoneVal} :
        \E now \in {t \in PaceInstants : t.aware = Beg(x).aware} :
            /\ op' = "pace"
            /\ args' = <<x, IF IsNone(dt) THEN now ELSE dt>>
            /\ result' = Pace(x, IF IsNone(dt) THEN now ELSE dt)

\* t in x, for a unit of a proper-interval type or a plain interval
CallContains ==
    /\ op = "start"
    /\ UNCHANGED gens
    /\ \/ \E c \in ProperClasses : \E x \in Units(c), t \in Instants(c) :
            /\ op' = "contains"
            /\ args' = <<x, t>>
            /\ result' = Contains(x, t)
       \/ \E x \in Operands, t \in InitInstants :
            /\ op' = "contains"
            /\ args' = <<x, t>>
            /\ result' = Contains(x, t)

\* x.iter(count, end, reverse): returns a generator
CallIter ==
    /\ op = "start"
    /\ \E x \in IterStarts, count \in Counts, reverse \in BOOLEAN :
        \E end \in Sentinels(x, reverse) :
            /\ op' = "iter"
            /\ args' = <<x, count, end, reverse>>
            /\ result' = Ok(NoneVal)
            /\ gens' = <<NewGen>>

\* the same call again, while the first generator is in use
CallIterAgain ==
    /\ op \in {"iter", "pull"}
    /\ Len(gens) < 2
    /\ op' = "iter"
    /\ args' = args
    /\ result' = Ok(NoneVal)
    /\ gens' = Append(gens, NewGen)

\* next(g) on a generator that has not finished
PullIter ==
    /\ op \in {"iter", "pull"}
    /\ \E i \in 1..Len(gens) :
        /\ gens[i].pc # "done"
        /\ Len(gens[i].out) <= MaxCount
        /\ LET g == IterResume(gens[i], args[1], args[2], args[3], args[4])
           IN  /\ gens' = [gens EXCEPT ![i] = g]
               /\ result' = PullResult(g)
    /\ op' = "pull"
    /\ args' = args

\* the caller takes the outcome, drops any generator, and is ready for the
\* next call
Return ==
    /\ op # "start"
    /\ op' = "start"
    /\ args' = <<>>
    /\ result' = Ok(NoneVal)
    /\ gens' = <<>>

Next ==
    \/ CallInterval
    \/ CallContaining
    \/ CallBeginning
    \/ CallNext
    \/ CallPrev
    \/ CallDivide
    \/ CallAdd
    \/ CallPace
    \/ CallContains
    \/ CallIter
    \/ CallIterAgain
    \/ PullIter
    \/ Return

Spec == Init /\ [][Next]_vars

(***************************************************************************)
(* Properties of Interval construction.                                    *)
(***************************************************************************)
Supplied(v) == ~IsNone(v)

NumSupplied ==
    Cardinality({i \in 1..3 : Supplied(args[i])})

\* C1: constructing an Interval from any two of beg, end and delta (a zero
\* delta included) succeeds, keeps the supplied arguments and satisfies
\* end == beg + delta.
C1_ConstructFromAnyTwo ==
    (/\ op = "Interval"
     /\ NumSupplied = 2
     /\ (Supplied(args[1]) /\ Supplied(args[2])
            => Comparable(args[1], args[2])))
    => /\ result.ok
       /\ Supplied(args[1]) => DtEq(Beg(result.val), args[1])
       /\ Supplied(args[2]) => DtEq(End(result.val), args[2])
       /\ Supplied(args[3]) => Delta(result.val) = args[3]
       /\ DtEq(End(result.val), DtAdd(Beg(result.val), Delta(result.val)))

\* C2: construction raises ValueError when fewer than two of beg, end and
\* delta are supplied, and when all three are supplied with
\* end - beg != delta (a zero delta included).
C2_ArgumentError ==
    (/\ op = "Interval"
     /\ \/ NumSupplied < 2
        \/ /\ NumSupplied = 3
           /\ Comparable(args[1], args[2])
           /\ DtSub(args[2], args[1]) # args[3])
    => ~result.ok /\ result.err = "ValueError"

\* C3: construction raises TypeError whenever beg and a supplied end differ
\* in timezone-awareness, with or without a supplied delta.
C3_TzMismatchTypeError ==
    (/\ op = "Interval"
     /\ Supplied(args[1]) /\ Supplied(args[2])
     /\ ~Comparable(args[1], args[2]))
    => ~result.ok /\ result.err = "TypeError"

(***************************************************************************)
(* Properties of the proper-interval types.                                *)
(***************************************************************************)
\* t is an exact start of a unit of class c, by the calendar
IsUnitStart(c, t) ==
    LET midnight == t.hour = 0 /\ t.minute = 0 /\ t.second = 0
                    /\ t.microsecond = 0
    IN  CASE c = "Year" -> t.month = 1 /\ t.day = 1 /\ midnight
          [] c = "Quarter" -> t.month \in {1, 4, 7, 10} /\ t.day = 1 /\ midnight
          [] c = "Month" -> t.day = 1 /\ midnight
          [] c = "Week" -> Weekday(t) = FirstWeekday /\ midnight
          [] c = "Day" -> midnight
          [] c = "Hour" -> t.minute = 0 /\ t.second = 0 /\ t.microsecond = 0
          [] c = "Minute" -> t.second = 0 /\ t.microsecond = 0
          [] c = "Second" -> t.microsecond = 0
          [] c = "MilliSecond" -> t.microsecond % 1000 = 0
          [] c = "MicroSecond" -> TRUE

\* C4: for every proper-interval type and every instant t, naive or aware,
\* containing(t) returns an instance x of the type with x.beg <= t < x.end.
C4_ContainingContains ==
    op = "containing"
    => /\ result.ok
       /\ result.val.cls = args[1]
       /\ Contains(result.val, args[2]) = Ok(TRUE)

\* C7: for every proper-interval type, the fixed-length ones included,
\* beginning(t) returns the unit with beg == t when t is an exact unit start
\* and raises ValueError for every other t.
C7_BeginningOnlyAtUnitStart ==
    op = "beginning"
    => IF IsUnitStart(args[1], args[2])
       THEN result.ok /\ DtEq(Beg(result.val), args[2])
       ELSE ~result.ok /\ result.err = "ValueError"

\* C8: for every proper-interval type and every instant t, x = containing(t)
\* satisfies x.prev().next() == x and x.next().prev() == x, with
\* x.prev().end == x.beg and x.next().beg == x.end.
C8_PrevNextRoundTrip ==
    op = "containing"
    => /\ result.ok
       /\ LET x == result.val
              p == PrevInterval(x)
              n == NextInterval(x)
          IN  /\ p.ok /\ n.ok
              /\ NextInterval(p.val).ok /\ PrevInterval(n.val).ok
              /\ IntervalEq(NextInterval(p.val).val, x)
              /\ IntervalEq(PrevInterval(n.val).val, x)
              /\ DtEq(End(p.val), Beg(x))
              /\ DtEq(Beg(n.val), End(x))

(***************************************************************************)
(* Properties of divide.                                                   *)
(***************************************************************************)
\* the sequence out is a chain: each element ends where the next begins
IsChain(out) ==
    \A i \in 1..(Len(out) - 1) : DtEq(End(out[i]), Beg(out[i + 1]))

\* out runs from instant b to instant e (an empty out covers an empty span)
Spans(out, b, e) ==
    IF Len(out) = 0 THEN DtEq(b, e)
    ELSE DtEq(Beg(out[1]), b) /\ DtEq(End(out[Len(out)]), e)

NonNegative(x) == ~DtLt(End(x), Beg(x))

\* C5: under 'partial', for every source (one inside a single unit and an
\* empty one included) the emitted sequence starts at source.beg, ends at
\* source.end, is a chain and has no element with end < beg.
C5_PartialCoversExactly ==
    (op = "divide" /\ args[3] = "partial" /\ NonNegative(args[2]))
    => /\ result.ok
       /\ Spans(result.val, Beg(args[2]), End(args[2]))
       /\ IsChain(result.val)
       /\ \A i \in 1..Len(result.val) : NonNegative(result.val[i])

\* C6: under 'raise', divide fails if and only if source.beg or source.end
\* is not an exact unit start; for a source whose ends both are (an empty
\* one included) it returns the consecutive full units from source.beg to
\* source.end.
C6_RaiseIffMisaligned ==
    (op = "divide" /\ args[3] = "raise" /\ NonNegative(args[2]))
    => /\ result.ok <=> (/\ IsUnitStart(args[1], Beg(args[2]))
                         /\ IsUnitStart(args[1], End(args[2])))
       /\ result.ok
            => /\ Spans(result.val, Beg(args[2]), End(args[2]))
               /\ IsChain(result.val)
               /\ \A i \in 1..Len(result.val) :
                    /\ result.val[i].cls = args[1]
                    /\ IsUnitStart(args[1], Beg(result.val[i]))

(***************************************************************************)
(* Properties of + and pace.                                               *)
(***************************************************************************)
\* r is the successful result Interval(b, e)
IsInterval(r, b, e) ==
    r.ok /\ DtEq(Beg(r.val), b) /\ DtEq(End(r.val), e)

\* C9: for all intervals a and b with a.end == b.beg, of any duration the
\* constructor accepts, a + b and b + a both equal Interval(a.beg, b.end).
C9_AddAdjacentCommutes ==
    (op = "add" /\ DtEq(End(args[1]), Beg(args[2])))
    => /\ IsInterval(result, Beg(args[1]), End(args[2]))
       /\ IsInterval(Add(args[2], args[1]), Beg(args[1]), End(args[2]))

\* C9 (amended): for all intervals a and b with a.end == b.beg, neither of
\* which ends before it begins (zero-length ones included), a + b and b + a
\* both equal Interval(a.beg, b.end).
C9_AddAdjacentNonNegative ==
    (/\ op = "add"
     /\ DtEq(End(args[1]), Beg(args[2]))
     /\ NonNegative(args[1]) /\ NonNegative(args[2]))
    => /\ IsInterval(result, Beg(args[1]), End(args[2]))
       /\ IsInterval(Add(args[2], args[1]), Beg(args[1]), End(args[2]))

\* witness of C9: two adjacent intervals of positive length were added
C9_Witness ==
    /\ op = "add"
    /\ DtEq(End(args[1]), Beg(args[2]))
    /\ DtLt(Beg(args[1]), End(args[1])) /\ DtLt(Beg(args[2]), End(args[2]))
    /\ result.ok
    /\ DtEq(Beg(result.val), Beg(args[1]))

\* comparison of fractions with non-zero denominators
FracLe(f, g) ==
    IF (f.den > 0) = (g.den > 0) THEN f.num * g.den <= g.num * f.den
    ELSE f.num * g.den >= g.num * f.den

FracEq(f, g) == f.num * g.den = g.num * f.den

\* what pace is specified to return for interval x at instant t
PaceAsSpecified(x, t, r) ==
    /\ r.ok
    /\ FracLe(Frac(0, 1), r.val) /\ FracLe(r.val, Frac(1, 1))
    /\ DtEq(t, Beg(x)) => FracEq(r.val, Frac(0, 1))
    /\ DtEq(t, End(x)) => FracEq(r.val, Frac(1, 1))
    /\ Comparable(t, Beg(x)) /\ DtLt(t, Beg(x)) => FracEq(r.val, Frac(0, 1))
    /\ Comparable(t, Beg(x)) /\ DtLt(End(x), t) => FracEq(r.val, Frac(1, 1))
    /\ (Comparable(t, Beg(x)) /\ DtLe(Beg(x), t) /\ DtLe(t, End(x)))
        => r.val.num * TotalMicros(Delta(x))
            = TotalMicros(DtSub(t, Beg(x))) * r.val.den
    \* monotonic: no later instant has a smaller pace
    /\ \A u \in PaceInstants :
        (Comparable(t, u) /\ DtLe(t, u))
            => Pace(x, u).ok /\ FracLe(r.val, Pace(x, u).val)

\* C10: for every interval, a zero-length one included, and every instant
\* t, pace(t) returns a value in [0, 1]: 0 at and before beg, 1 at and
\* after end, (t - beg) / delta in between, non-decreasing in t.
C10_PaceEveryInterval ==
    op = "pace" => PaceAsSpecified(args[1], args[2], result)

\* C10 (amended): the same for every interval with end > beg and every
\* instant t of the interval's timezone-awareness.
C10_PacePositiveInterval ==
    (/\ op = "pace"
     /\ DtLt(Beg(args[1]), End(args[1]))
     /\ Comparable(args[2], Beg(args[1])))
    => PaceAsSpecified(args[1], args[2], result)

\* witness of C10: an instant strictly inside an interval with end > beg,
\* whose pace is strictly between 0 and 1
C10_Witness ==
    /\ op = "pace"
    /\ DtLt(Beg(args[1]), args[2]) /\ DtLt(args[2], End(args[1]))
    /\ Comparable(args[2], Beg(args[1]))
    /\ result.ok
    /\ 0 < result.val.num /\ result.val.num < result.val.den

(***************************************************************************)
(* Properties of containment.                                              *)
(***************************************************************************)
\* a timedelta is shorter than another
TdLt(a, b) ==
    KeyLt(<<a.days, a.seconds, a.microseconds>>,
          <<b.days, b.seconds, b.microseconds>>)

\* instant t lies in the span of x, by the calendar: in the year, quarter
\* or month that x names, or at an offset 0 <= t - beg < delta from beg
InSpan(x, t) ==
    CASE x.cls = "Year" -> t.year = x.year
      [] x.cls = "Quarter" ->
            t.year = x.year /\ ((t.month - 1) \div 3) + 1 = x.quarter
      [] x.cls = "Month" -> t.year = x.year /\ t.month = x.month
      [] OTHER -> /\ DtSub(t, x.beg).days >= 0
                  /\ TdLt(DtSub(t, x.beg), Delta(x))

\* C11: for every interval value of every type and every instant t,
\* `t in interval` is true if and only if beg <= t < end: true at t == beg
\* of an interval with beg < end, false at t == end.
C11_ContainsHalfOpen ==
    op = "contains"
    => /\ (result.ok /\ result.val = TRUE)
            <=> (Comparable(args[2], Beg(args[1])) /\ InSpan(args[1], args[2]))
       /\ Comparable(args[2], Beg(args[1])) => result.ok
       /\ (DtEq(args[2], Beg(args[1])) /\ DtLt(Beg(args[1]), End(args[1])))
            => result = Ok(TRUE)
       /\ DtEq(args[2], End(args[1])) => result = Ok(FALSE)

\* witness of C11: the end of a unit computed from calendar fields was
\* tested and found outside it
C11_Witness ==
    /\ op = "contains"
    /\ args[1].cls = "Quarter"
    /\ DtEq(args[2], End(args[1]))
    /\ result = Ok(FALSE)

(***************************************************************************)
(* Properties of divide under 'ignore'.                                    *)
(***************************************************************************)
\* x is a full unit of class c lying wholly inside the source
FullUnitInside(c, x, source) ==
    /\ x.cls = c
    /\ IsUnitStart(c, Beg(x))
    /\ Comparable(Beg(x), Beg(source))
    /\ DtLe(Beg(source), Beg(x))
    /\ DtLe(End(x), End(source))

\* C12: under 'ignore' every emitted interval is a full unit of the target
\* type lying wholly inside the source; when the source begins mid-unit the
\* partial leading unit is dropped, so the first emitted interval is the
\* first full unit with beg >= source.beg.
C12_IgnoreDropsPartialUnits ==
    (op = "divide" /\ args[3] = "ignore" /\ NonNegative(args[2]))
    => /\ result.ok
       /\ \A i \in 1..Len(result.val) :
            FullUnitInside(args[1], result.val[i], args[2])
       /\ Len(result.val) > 0
            => DtLt(Beg(PrevInterval(result.val[1]).val), Beg(args[2]))

(***************************************************************************)
(* Properties of iter.                                                     *)
(***************************************************************************)
IsPrefix(u, v) == Len(u) <= Len(v) /\ \A i \in 1..Len(u) : u[i] = v[i]

\* y follows x in the direction of the iteration, adjacent to it
Follows(x, y, reverse) ==
    /\ IterStep(x, reverse) = Ok(y)
    /\ IF reverse THEN DtEq(End(y), Beg(x)) ELSE DtEq(End(x), Beg(y))

\* the value the generator would yield after the values in out
WouldYield(self, out, reverse) ==
    IF Len(out) = 0 THEN self ELSE IterStep(out[Len(out)], reverse).val

\* generator g of self.iter(count, end, reverse) has behaved as specified
IterAsSpecified(g, self, count, end, reverse) ==
    /\ g.pc = "created" => Len(g.out) = 0
    /\ Len(g.out) > 0 => g.out[1] = self
    /\ \A j \in 1..(Len(g.out) - 1) : Follows(g.out[j], g.out[j + 1], reverse)
    /\ \A j \in 1..Len(g.out) : ~SentinelEq(g.out[j], end)
    /\ ~IsNone(count) => Len(g.out) <= count.val
    /\ g.pc = "suspended" => Len(g.out) > 0
    /\ g.pc = "done"
        => /\ g.err = ""
           /\ \/ ~IsNone(count) /\ Len(g.out) = count.val
              \/ SentinelEq(WouldYield(self, g.out, reverse), end)

\* C13: iter(count, end, reverse) started at s yields s first and then
\* successive next() values (prev() values when reverse), each adjacent to
\* the one before; it stops after exactly count values or just before a
\* value equal to the end sentinel, whichever comes first, never yields the
\* sentinel, and two iterations from the same s yield the same sequence
\* independently of each other.
C13_IterYieldsBoundedChain ==
    op \in {"iter", "pull"}
    => /\ \A i \in 1..Len(gens) :
            IterAsSpecified(gens[i], args[1], args[2], args[3], args[4])
       /\ \A i, j \in 1..Len(gens) :
            IsPrefix(gens[i].out, gens[j].out)
                \/ IsPrefix(gens[j].out, gens[i].out)
       /\ op = "pull" /\ result.ok
            => \E i \in 1..Len(gens) :
                /\ gens[i].pc = "suspended"
                /\ result.val = gens[i].out[Len(gens[i].out)]

\* witness of C13: of two iterations of the same call, one has stopped
\* after exactly count = MaxCount values while the other has yielded one
C13_Witness ==
    /\ op = "pull"
    /\ Len(gens) = 2
    /\ args[2] = IntVal(MaxCount)
    /\ gens[1].pc = "done" /\ Len(gens[1].out) = MaxCount
    /\ gens[2].pc = "suspended" /\ Len(gens[2].out) = 1

====
